---- MODULE Spec2Model ----
(***************************************************************************)
(* Model of convert-images.js: the recursive directory walk                *)
(* (processDirectory), the single-file converter (convertFile), the        *)
(* statistics merge and the summary printed by main.                       *)
(*                                                                         *)
(* A path is a sequence of tokens: "/" is the separator, "." is a dot and  *)
(* every other token is a maximal run of characters that holds neither.    *)
(* "to-be-converted/a/img.png" is                                          *)
(*   <<"to-be-converted", "/", "a", "/", "img", ".", "png">>.              *)
(***************************************************************************)
EXTENDS Integers, Sequences, FiniteSets, TLC

VARIABLES pc, rootExists, srcDirs, srcFiles, stack, returned, listFailed,
          attempts, outFiles, finalStats, report

vars == <<pc, rootExists, srcDirs, srcFiles, stack, returned, listFailed,
          attempts, outFiles, finalStats, report>>

----------------------------------------------------------------------------
(* Bounds *)

\* directories and files under the source root
MaxEntries == 4

\* page counts the frame probe may report
MaxPages == 2

----------------------------------------------------------------------------
(* Program constants *)

TO_BE_CONVERTED_DIR == "to-be-converted"

CONVERTED_DIR == "converted"

SUPPORTED_FORMATS ==
  { <<".", "gif">>, <<".", "png">>, <<".", "jpg">>, <<".", "jpeg">>,
    <<".", "tiff">>, <<".", "bmp">>, <<".", "webp">>, <<".", "avif">> }

----------------------------------------------------------------------------
(* node:path and String helpers, on token sequences *)

Sep == "/"

Dot == "."

LastIndexOf(p, tok) ==
  LET hits == {i \in 1..Len(p) : p[i] = tok}
  IN IF hits = {} THEN 0 ELSE CHOOSE i \in hits : \A j \in hits : j <= i

\* path.join(a, b) for two normalised, non-empty paths
PathJoin(a, b) == a \o <<Sep>> \o b

IsPrefix(a, b) == Len(a) <= Len(b) /\ SubSeq(b, 1, Len(a)) = a

\* path.relative(from, to): both are relative to the working directory
PathRelative(from, to) ==
  IF IsPrefix(from \o <<Sep>>, to)
  THEN SubSeq(to, Len(from) + 2, Len(to))
  ELSE <<"..", Sep>> \o to

\* path.basename(p)
PathBasename(p) == SubSeq(p, LastIndexOf(p, Sep) + 1, Len(p))

\* path.dirname(p)
PathDirname(p) ==
  IF LastIndexOf(p, Sep) = 0 THEN <<Dot>> ELSE SubSeq(p, 1, LastIndexOf(p, Sep) - 1)

\* path.extname(p): from the last dot of the basename to its end; empty when
\* there is no dot or the only dot is the first character of the basename
PathExtname(p) ==
  LET b == PathBasename(p)
      i == LastIndexOf(b, Dot)
  IN IF i <= 1 THEN <<>> ELSE SubSeq(b, i, Len(b))

LowerOfToken(tok) ==
  CASE tok = "PNG" -> "png"
    [] tok = "GIF" -> "gif"
    [] OTHER -> tok

\* String.prototype.toLowerCase
ToLowerCase(p) == [i \in DOMAIN p |-> LowerOfToken(p[i])]

\* outputPath.replace(/\.[^/.]+$/, ".webp")
ReplaceExtWebp(p) ==
  IF Len(p) >= 2 /\ p[Len(p)] \notin {Sep, Dot} /\ p[Len(p) - 1] = Dot
  THEN SubSeq(p, 1, Len(p) - 2) \o <<Dot, "webp">>
  ELSE p

\* variant: any file with an extension is taken as supported
IsSupported_AnyExt(ext) == ext # <<>>

IsSupported(ext) == ext \in SUPPORTED_FORMATS

----------------------------------------------------------------------------
(* The source trees the walk is run on *)

Root == <<TO_BE_CONVERTED_DIR>>

DirA == PathJoin(Root, <<"a">>)

DirAB == PathJoin(DirA, <<"b">>)

DirCD == PathJoin(Root, <<"c", Dot, "d">>)

CandidateDirs == {DirA, DirAB, DirCD}

ImgPng == <<"img", Dot, "png">>

ImgJpg == <<"img", Dot, "jpg">>

AnimGIF == <<"anim", Dot, "GIF">>

NoteTxt == <<"note", Dot, "txt">>

PicV2PNG == <<"pic", Dot, "v2", Dot, "PNG">>

LinkPng == <<"link", Dot, "png">>

\* kind "file": Dirent.isFile(); kind "other": neither a file nor a directory
FileSlots ==
  { [dir |-> Root,  name |-> ImgPng,   kind |-> "file",  size |-> 1000],
    [dir |-> Root,  name |-> ImgJpg,   kind |-> "file",  size |-> 800],
    [dir |-> Root,  name |-> AnimGIF,  kind |-> "file",  size |-> 300],
    [dir |-> Root,  name |-> NoteTxt,  kind |-> "file",  size |-> 50],
    [dir |-> Root,  name |-> LinkPng,  kind |-> "other", size |-> 0],
    [dir |-> DirA,  name |-> PicV2PNG, kind |-> "file",  size |-> 640],
    [dir |-> DirAB, name |-> ImgPng,   kind |-> "file",  size |-> 1000],
    [dir |-> DirCD, name |-> ImgJpg,   kind |-> "file",  size |-> 800] }

\* sizes the encoders may produce
NewSizes == {400}

\* what sharp(filePath).metadata() answers: it throws, or reports a page
\* count (0 stands for a metadata object without a pages field)
Probes ==
  {[threw |-> TRUE, pages |-> 0]} \cup [threw : {FALSE}, pages : 0..MaxPages]

NoProbe == [ran |-> FALSE, threw |-> FALSE, pages |-> 0]

AnyProbe == [threw |-> FALSE, pages |-> 0]

AnySize == CHOOSE n \in NewSizes : TRUE

\* what the file system and the encoders answer during one convertFile call:
\* each await either throws or succeeds, the first throw ends the call
Envs ==
  {[statOk |-> FALSE, mkdirOk |-> TRUE, probe |-> AnyProbe, encOk |-> TRUE,
    outStatOk |-> TRUE, newSize |-> AnySize],
   [statOk |-> TRUE, mkdirOk |-> FALSE, probe |-> AnyProbe, encOk |-> TRUE,
    outStatOk |-> TRUE, newSize |-> AnySize]}
  \cup [statOk : {TRUE}, mkdirOk : {TRUE}, probe : Probes, encOk : {FALSE},
        outStatOk : {TRUE}, newSize : {AnySize}]
  \cup [statOk : {TRUE}, mkdirOk : {TRUE}, probe : Probes, encOk : {TRUE},
        outStatOk : {FALSE}, newSize : {AnySize}]
  \cup [statOk : {TRUE}, mkdirOk : {TRUE}, probe : Probes, encOk : {TRUE},
        outStatOk : {TRUE}, newSize : NewSizes]

----------------------------------------------------------------------------
(* Statistics records *)

NoFormats == [k \in {} |-> 0]

EmptyStats ==
  [ totalFiles |-> 0, successfulConversions |-> 0, failedConversions |-> 0,
    totalOriginalSize |-> 0, totalNewSize |-> 0, formats |-> NoFormats ]

\* (obj[k] || 0)
CountOr0(formats, k) == IF k \in DOMAIN formats THEN formats[k] ELSE 0

\* variant: stats.formats[format] = count
MergeFormats_Overwrite(formats, sub) ==
  [k \in DOMAIN formats \cup DOMAIN sub |-> IF k \in DOMAIN sub THEN sub[k] ELSE formats[k]]

MergeFormats(formats, sub) ==
  [k \in DOMAIN formats \cup DOMAIN sub |-> CountOr0(formats, k) + CountOr0(sub, k)]

\* variant: the two size totals of the subdirectory are not merged
MergeStats_DropSizes(stats, subStats) ==
  [ totalFiles |-> stats.totalFiles + subStats.totalFiles,
    successfulConversions |-> stats.successfulConversions + subStats.successfulConversions,
    failedConversions |-> stats.failedConversions + subStats.failedConversions,
    totalOriginalSize |-> stats.totalOriginalSize,
    totalNewSize |-> stats.totalNewSize,
    formats |-> MergeFormats(stats.formats, subStats.formats) ]

MergeStats(stats, subStats) ==
  [ totalFiles |-> stats.totalFiles + subStats.totalFiles,
    successfulConversions |-> stats.successfulConversions + subStats.successfulConversions,
    failedConversions |-> stats.failedConversions + subStats.failedConversions,
    totalOriginalSize |-> stats.totalOriginalSize + subStats.totalOriginalSize,
    totalNewSize |-> stats.totalNewSize + subStats.totalNewSize,
    formats |-> MergeFormats(stats.formats, subStats.formats) ]

\* stats.totalFiles++; stats.formats[ext] = (stats.formats[ext] || 0) + 1
CountFile(stats, ext) ==
  [stats EXCEPT !.totalFiles = @ + 1,
                !.formats = [k \in DOMAIN stats.formats \cup {ext} |->
                               IF k = ext THEN CountOr0(stats.formats, k) + 1
                               ELSE stats.formats[k]]]

\* the value convertFile returns: null, or {success, originalSize, newSize}
Null == [success |-> FALSE, originalSize |-> 0, newSize |-> 0]

\* variant: the else branch is missing
FoldResult_NoFailCount(stats, result) ==
  IF result.success
  THEN [stats EXCEPT !.successfulConversions = @ + 1,
                     !.totalOriginalSize = @ + result.originalSize,
                     !.totalNewSize = @ + result.newSize]
  ELSE stats

\* if (result) {...} else {...}
FoldResult(stats, result) ==
  IF result.success
  THEN [stats EXCEPT !.successfulConversions = @ + 1,
                     !.totalOriginalSize = @ + result.originalSize,
                     !.totalNewSize = @ + result.newSize]
  ELSE [stats EXCEPT !.failedConversions = @ + 1]

----------------------------------------------------------------------------
(* The single-file converter *)

\* variant: the catch returns false
isAnimatedGif_FalseOnThrow(probe) ==
  IF probe.threw THEN FALSE ELSE probe.pages # 0 /\ probe.pages > 1

\* metadata.pages && metadata.pages > 1; true when sharp throws
isAnimatedGif(probe) ==
  IF probe.threw THEN TRUE ELSE probe.pages # 0 /\ probe.pages > 1

\* the encoder convertFile calls
Dispatch(ext, probe) ==
  IF ext = <<Dot, "gif">> /\ isAnimatedGif(probe) THEN {"gif2webp"} ELSE {"sharp"}

\* convertFile(inputPath, outputPath) under the answers env; size is the size
\* fs.stat reports for the input.  ret is the returned value, encoders the
\* encoders invoked, probe the frame probe made, failedAt the await that
\* threw, wrote whether the output file is on disk afterwards (the stat of
\* the output throws when the file is not there).
convertFile(inputPath, outputPath, size, env) ==
  LET ext == ToLowerCase(PathExtname(inputPath))
      probe == IF ext = <<Dot, "gif">>
               THEN [ran |-> TRUE, threw |-> env.probe.threw, pages |-> env.probe.pages]
               ELSE NoProbe
      early(at) == [ret |-> Null, encoders |-> {}, probe |-> NoProbe,
                    failedAt |-> at, wrote |-> FALSE]
      late(at) == [ret |-> Null, encoders |-> Dispatch(ext, env.probe),
                   probe |-> probe, failedAt |-> at, wrote |-> FALSE]
  IN IF ~IsSupported(ext) THEN early("unsupported")
     ELSE IF ~env.statOk THEN early("stat")
     ELSE IF ~env.mkdirOk THEN early("mkdir")
     ELSE IF ~env.encOk THEN late("encode")
     ELSE IF ~env.outStatOk THEN late("outStat")
     ELSE [ret |-> [success |-> TRUE, originalSize |-> size, newSize |-> env.newSize],
           encoders |-> Dispatch(ext, env.probe), probe |-> probe,
           failedAt |-> "none", wrote |-> TRUE]

----------------------------------------------------------------------------
(* The summary *)

Abs(x) == IF x < 0 THEN -x ELSE x

\* ((a / b) * 100).toFixed(2), as hundredths of a percent; a division by
\* zero gives NaN (0/0) or an infinity (a/0), which toFixed prints as such
PercentToFixed2(a, b) ==
  IF b = 0
  THEN IF a = 0 THEN [text |-> "NaN", hundredths |-> 0]
       ELSE IF a > 0 THEN [text |-> "Infinity", hundredths |-> 0]
       ELSE [text |-> "-Infinity", hundredths |-> 0]
  ELSE LET q == (2 * Abs(a) * 10000 + b) \div (2 * b)
       IN [text |-> "number", hundredths |-> IF a < 0 THEN -q ELSE q]

\* the "Overall reduction" line of main
OverallReduction(stats) ==
  PercentToFixed2(stats.totalOriginalSize - stats.totalNewSize, stats.totalOriginalSize)

NoReport == [text |-> "none", hundredths |-> 0]

----------------------------------------------------------------------------
(* The state after start-up *)

PrefixClosed(D) == DirAB \in D => DirA \in D

Init ==
  /\ pc = "start"
  /\ rootExists \in BOOLEAN
  /\ srcDirs \in {D \in SUBSET CandidateDirs : PrefixClosed(D) /\ (~rootExists => D = {})}
  /\ srcFiles \in {F \in SUBSET FileSlots :
                     /\ Cardinality(F) + Cardinality(srcDirs) <= MaxEntries
                     /\ \A f \in F : rootExists /\ f.dir \in srcDirs \cup {Root}}
  /\ stack = <<>>
  /\ returned = {}
  /\ listFailed = {}
  /\ attempts = {}
  /\ outFiles = {}
  /\ finalStats = EmptyStats
  /\ report = NoReport

----------------------------------------------------------------------------
(* The directory walk *)

\* the Dirents fs.readdir(dir, {withFileTypes: true}) yields
Entries(dir) ==
  {[name |-> PathRelative(dir, d), kind |-> "dir", size |-> 0] :
      d \in {x \in srcDirs : PathDirname(x) = dir}}
  \cup {[name |-> f.name, kind |-> f.kind, size |-> f.size] :
      f \in {x \in srcFiles : x.dir = dir}}

Frame(inputDir, outputDir) ==
  [inputDir |-> inputDir, outputDir |-> outputDir, listed |-> FALSE,
   pending |-> {}, stats |-> EmptyStats]

Top == stack[Len(stack)]

SetTop(frame) == [stack EXCEPT ![Len(stack)] = frame]

\* const inputPath = path.join(inputDir, entry.name)
InputPath(frame, entry) == PathJoin(frame.inputDir, entry.name)

\* const outputPath = path.join(outputDir, relativePath)
OutputPath(frame, entry) ==
  PathJoin(frame.outputDir, PathRelative(Root, InputPath(frame, entry)))

\* variant: the recursive call is given outputPath
ChildOutputDir_Nested(outputDir, outputPath) == outputPath

\* the outputDir argument of the recursive call
ChildOutputDir(outputDir, outputPath) == outputDir

\* main: both ensureDir calls succeed, processDirectory is called on the roots
MainSetupOk ==
  /\ pc = "start"
  /\ pc' = "walk"
  /\ rootExists' = TRUE
  /\ stack' = <<Frame(Root, <<CONVERTED_DIR>>)>>
  /\ UNCHANGED <<srcDirs, srcFiles, returned, listFailed, attempts, outFiles,
                 finalStats, report>>

\* main: an ensureDir call throws; main logs the error and ends
MainSetupFail ==
  /\ pc = "start"
  /\ pc' = "aborted"
  /\ UNCHANGED <<rootExists, srcDirs, srcFiles, stack, returned, listFailed,
                 attempts, outFiles, finalStats, report>>

\* fs.readdir succeeds
ReadDirOk ==
  /\ pc = "walk"
  /\ ~Top.listed
  /\ stack' = SetTop([Top EXCEPT !.listed = TRUE, !.pending = Entries(Top.inputDir)])
  /\ UNCHANGED <<pc, rootExists, srcDirs, srcFiles, returned, listFailed,
                 attempts, outFiles, finalStats, report>>

\* variant: no try/catch around the listing, the error reaches main
ReadDirFail_Rethrows ==
  /\ pc = "walk"
  /\ ~Top.listed
  /\ stack' = <<>>
  /\ pc' = "aborted"
  /\ listFailed' = listFailed \cup {Top.inputDir}
  /\ UNCHANGED <<rootExists, srcDirs, srcFiles, returned, attempts,
                 outFiles, finalStats, report>>

\* fs.readdir throws: the catch logs it and the function goes on to return
ReadDirFail ==
  /\ pc = "walk"
  /\ ~Top.listed
  /\ stack' = SetTop([Top EXCEPT !.listed = TRUE, !.pending = {}])
  /\ listFailed' = listFailed \cup {Top.inputDir}
  /\ UNCHANGED <<pc, rootExists, srcDirs, srcFiles, returned, attempts,
                 outFiles, finalStats, report>>

\* loop body, entry.isDirectory(): the recursive call is made
EnterSubdir ==
  /\ pc = "walk"
  /\ Top.listed
  /\ \E entry \in Top.pending :
       /\ entry.kind = "dir"
       /\ stack' = Append(SetTop([Top EXCEPT !.pending = @ \ {entry}]),
                          Frame(InputPath(Top, entry),
                                ChildOutputDir(Top.outputDir, OutputPath(Top, entry))))
  /\ UNCHANGED <<pc, rootExists, srcDirs, srcFiles, returned, listFailed,
                 attempts, outFiles, finalStats, report>>

\* the recursive call returns its stats and the caller merges them
ReturnSubdir ==
  /\ pc = "walk"
  /\ Len(stack) > 1
  /\ Top.listed
  /\ Top.pending = {}
  /\ LET parent == stack[Len(stack) - 1]
         rest == SubSeq(stack, 1, Len(stack) - 1)
     IN stack' = [rest EXCEPT ![Len(rest)] =
                    [parent EXCEPT !.stats = MergeStats(parent.stats, Top.stats)]]
  /\ returned' = returned \cup {[dir |-> Top.inputDir, stats |-> Top.stats]}
  /\ UNCHANGED <<pc, rootExists, srcDirs, srcFiles, listFailed, attempts,
                 outFiles, finalStats, report>>

\* variant: convertFile has no try/catch, a failed conversion throws into
\* the catch of processDirectory and ends the loop
ProcessFile_AbortOnFailure ==
  /\ pc = "walk"
  /\ Top.listed
  /\ \E entry \in Top.pending, env \in Envs :
       LET ext == ToLowerCase(PathExtname(entry.name))
           inputPath == InputPath(Top, entry)
           outputWebP == ReplaceExtWebp(OutputPath(Top, entry))
           conv == convertFile(inputPath, outputWebP, entry.size, env)
       IN /\ entry.kind = "file"
          /\ IsSupported(ext)
          /\ stack' = SetTop([Top EXCEPT
                                !.pending = IF conv.ret.success THEN @ \ {entry} ELSE {},
                                !.stats = IF conv.ret.success
                                          THEN FoldResult(CountFile(@, ext), conv.ret)
                                          ELSE CountFile(@, ext)])
          /\ attempts' = attempts \cup
                           {[input |-> inputPath, output |-> outputWebP,
                             encoders |-> conv.encoders, probe |-> conv.probe,
                             failedAt |-> conv.failedAt, result |-> conv.ret]}
          /\ outFiles' = IF conv.wrote THEN outFiles \cup {outputWebP} ELSE outFiles
  /\ UNCHANGED <<pc, rootExists, srcDirs, srcFiles, returned, listFailed,
                 finalStats, report>>

\* loop body, entry.isFile() with a supported extension
ProcessFile ==
  /\ pc = "walk"
  /\ Top.listed
  /\ \E entry \in Top.pending, env \in Envs :
       LET ext == ToLowerCase(PathExtname(entry.name))
           inputPath == InputPath(Top, entry)
           outputWebP == ReplaceExtWebp(OutputPath(Top, entry))
           conv == convertFile(inputPath, outputWebP, entry.size, env)
       IN /\ entry.kind = "file"
          /\ IsSupported(ext)
          /\ stack' = SetTop([Top EXCEPT
                                !.pending = @ \ {entry},
                                !.stats = FoldResult(CountFile(@, ext), conv.ret)])
          /\ attempts' = attempts \cup
                           {[input |-> inputPath, output |-> outputWebP,
                             encoders |-> conv.encoders, probe |-> conv.probe,
                             failedAt |-> conv.failedAt, result |-> conv.ret]}
          /\ outFiles' = IF conv.wrote THEN outFiles \cup {outputWebP} ELSE outFiles
  /\ UNCHANGED <<pc, rootExists, srcDirs, srcFiles, returned, listFailed,
                 finalStats, report>>

\* loop body, an entry that is neither a directory nor a supported file
SkipEntry ==
  /\ pc = "walk"
  /\ Top.listed
  /\ \E entry \in Top.pending :
       /\ entry.kind # "dir"
       /\ ~(entry.kind = "file" /\ IsSupported(ToLowerCase(PathExtname(entry.name))))
       /\ stack' = SetTop([Top EXCEPT !.pending = @ \ {entry}])
  /\ UNCHANGED <<pc, rootExists, srcDirs, srcFiles, returned, listFailed,
                 attempts, outFiles, finalStats, report>>

\* the outermost processDirectory call returns to main
ReturnRoot ==
  /\ pc = "walk"
  /\ Len(stack) = 1
  /\ Top.listed
  /\ Top.pending = {}
  /\ finalStats' = Top.stats
  /\ returned' = returned \cup {[dir |-> Top.inputDir, stats |-> Top.stats]}
  /\ stack' = <<>>
  /\ pc' = "summary"
  /\ UNCHANGED <<rootExists, srcDirs, srcFiles, listFailed, attempts, outFiles,
                 report>>

\* main prints the summary
PrintSummary ==
  /\ pc = "summary"
  /\ report' = OverallReduction(finalStats)
  /\ pc' = "done"
  /\ UNCHANGED <<rootExists, srcDirs, srcFiles, stack, returned, listFailed,
                 attempts, outFiles, finalStats>>

Next ==
  \/ MainSetupOk
  \/ MainSetupFail
  \/ ReadDirOk
  \/ ReadDirFail
  \/ EnterSubdir
  \/ ReturnSubdir
  \/ ProcessFile
  \/ SkipEntry
  \/ ReturnRoot
  \/ PrintSummary

Spec == Init /\ [][Next]_vars

----------------------------------------------------------------------------
(* Reference notions the properties are stated with.  They are read off the *)
(* source tree and the recorded conversions, never off the walk's order.    *)

\* the candidate names whose extension is one of the 8 supported ones
SupportedNames == {ImgPng, ImgJpg, AnimGIF, PicV2PNG}

GifNames == {AnimGIF}

\* the lower-cased extension of a supported candidate name
ExtOfName(name) ==
  CASE name = ImgPng -> <<Dot, "png">>
    [] name = PicV2PNG -> <<Dot, "png">>
    [] name = ImgJpg -> <<Dot, "jpg">>
    [] name = AnimGIF -> <<Dot, "gif">>

SrcPath(f) == f.dir \o <<Sep>> \o f.name

\* path p lies in the subtree of directory d
Under(p, d) == IsPrefix(d \o <<Sep>>, p)

AllDirs == srcDirs \cup {Root}

\* directories whose listing, and the listing of every ancestor, succeeded
WalkedDirs ==
  {d \in AllDirs : \A a \in AllDirs : (a = d \/ Under(d, a)) => a \notin listFailed}

\* the supported files of the walked directories in the subtree of d
SupportedIn(d) ==
  {f \in srcFiles : /\ f.kind = "file"
                    /\ f.name \in SupportedNames
                    /\ f.dir \in WalkedDirs
                    /\ Under(SrcPath(f), d)}

AttemptsIn(d) == {a \in attempts : Under(a.input, d)}

Succeeded(A) == {a \in A : a.result.success}

Failed(A) == {a \in A : ~a.result.success}

RECURSIVE SumSize(_)
SumSize(F) ==
  IF F = {} THEN 0
  ELSE LET f == CHOOSE x \in F : TRUE IN f.size + SumSize(F \ {f})

RECURSIVE SumNewSize(_)
SumNewSize(A) ==
  IF A = {} THEN 0
  ELSE LET a == CHOOSE x \in A : TRUE IN a.result.newSize + SumNewSize(A \ {a})

\* the source files whose conversion succeeded, in the subtree of d
SucceededFilesIn(d) ==
  {f \in srcFiles : \E a \in Succeeded(AttemptsIn(d)) : a.input = SrcPath(f)}

----------------------------------------------------------------------------
(* C1: the statistics record returned by processDirectory at every level   *)
(* of the recursion satisfies                                              *)
(* totalFiles = successfulConversions + failedConversions.                 *)
C1_TotalIsSuccessPlusFailed ==
  \A r \in returned :
    r.stats.totalFiles = r.stats.successfulConversions + r.stats.failedConversions

\* the root has returned with a success and a failure, a subdirectory has
\* returned with a file of its own, and some listing has failed
C1_Witness ==
  /\ \E r \in returned :
       /\ r.dir = Root
       /\ r.stats.successfulConversions >= 1
       /\ r.stats.failedConversions >= 1
  /\ \E r \in returned : r.dir # Root /\ r.stats.totalFiles >= 1
  /\ listFailed # {}

----------------------------------------------------------------------------
(* C2: the output path handed to the converter is the output root joined   *)
(* with the file's path relative to the source root, the final extension   *)
(* replaced by ".webp"; no directory component is dropped, duplicated or   *)
(* altered.                                                                *)
C2_MirroredOutputPath ==
  \A a \in attempts :
    a.output = <<CONVERTED_DIR>> \o SubSeq(a.input, 2, Len(a.input) - 1) \o <<"webp">>

\* to-be-converted/a/b/img.png went to converted/a/b/img.webp, and a file
\* with two dots in its name and one below a dotted directory were converted
C2_Witness ==
  /\ \E a \in attempts :
       /\ a.input = PathJoin(DirAB, ImgPng)
       /\ a.output = <<"converted", "/", "a", "/", "b", "/", "img", ".", "webp">>
  /\ \E a \in attempts :
       a.input \in {PathJoin(DirA, PicV2PNG), PathJoin(DirCD, ImgJpg)}

----------------------------------------------------------------------------
(* C3 (as claimed): after a run the number of distinct files written under *)
(* the output root equals the root's successfulConversions, and no file    *)
(* under the source root has been written to.                              *)
C3_OneOutputPerSuccess ==
  pc = "done" =>
    /\ Cardinality(outFiles) = finalStats.successfulConversions
    /\ \A f \in srcFiles : SrcPath(f) \notin outFiles

----------------------------------------------------------------------------
(* C4: a file whose lower-cased extension is not supported is skipped: no  *)
(* conversion is attempted and no output file is produced for it, and it   *)
(* adds nothing to totalFiles, successfulConversions, failedConversions or *)
(* any format count, at any level.                                         *)
RECURSIVE SumCounts(_, _)
SumCounts(formats, keys) ==
  IF keys = {} THEN 0
  ELSE LET k == CHOOSE x \in keys : TRUE
       IN formats[k] + SumCounts(formats, keys \ {k})

C4_UnsupportedSkipped ==
  /\ \A a \in attempts :
       /\ PathBasename(a.input) \in SupportedNames
       /\ a.failedAt # "unsupported"
  /\ \A o \in outFiles : \E a \in attempts : a.output = o
  /\ \A r \in returned :
       /\ r.stats.totalFiles = Cardinality(AttemptsIn(r.dir))
       /\ r.stats.successfulConversions = Cardinality(Succeeded(AttemptsIn(r.dir)))
       /\ r.stats.failedConversions = Cardinality(Failed(AttemptsIn(r.dir)))
       /\ DOMAIN r.stats.formats = {ExtOfName(PathBasename(a.input)) : a \in AttemptsIn(r.dir)}
       /\ SumCounts(r.stats.formats, DOMAIN r.stats.formats) = r.stats.totalFiles

\* the run has ended after the walk met note.txt next to supported files
C4_Witness ==
  /\ pc = "done"
  /\ \E f \in srcFiles : f.name = NoteTxt /\ f.dir \in WalkedDirs
  /\ finalStats.totalFiles >= 2

----------------------------------------------------------------------------
(* C5: a per-file conversion failure never aborts the run: every supported *)
(* file of every listed directory is still attempted, failedConversions is *)
(* the number of supported files whose conversion failed and               *)
(* successfulConversions the number that succeeded.                        *)
C5_FailureDoesNotAbort ==
  pc = "done" =>
    /\ {a.input : a \in attempts} = {SrcPath(f) : f \in SupportedIn(Root)}
    /\ finalStats.failedConversions =
         Cardinality({a \in attempts : a.failedAt # "none"})
    /\ finalStats.successfulConversions =
         Cardinality({a \in attempts : a.failedAt = "none"})

\* three files of one directory: one failed, the other two were converted
C5_Witness ==
  /\ pc = "done"
  /\ Cardinality(Failed({a \in attempts : PathDirname(a.input) = Root})) = 1
  /\ Cardinality(Succeeded({a \in attempts : PathDirname(a.input) = Root})) = 2

----------------------------------------------------------------------------
(* C6 (as claimed): when the total original size is 0 the reported overall *)
(* reduction is 0%, and no non-numeric value is shown; for 1000 and 400    *)
(* the reported reduction is 60.00%.                                       *)
C6_ReductionZeroWhenNothingConverted ==
  pc = "done" =>
    /\ report.text = "number"
    /\ finalStats.totalOriginalSize = 0 => report.hundredths = 0
    /\ (finalStats.totalOriginalSize = 1000 /\ finalStats.totalNewSize = 400)
         => report.hundredths = 6000

----------------------------------------------------------------------------
(* C7: conversion dispatch.                                                *)

\* the frame probe of attempt a answered "animated": it reported more than
\* one page, or it failed
ProbeSaysAnimated(a) == a.probe.ran /\ (a.probe.threw \/ a.probe.pages > 1)

IsGifAttempt(a) == PathBasename(a.input) \in GifNames

\* convertFile got as far as choosing an encoder
ReachedDispatch(a) == a.failedAt \notin {"stat", "mkdir"}

(* C7 (as claimed): a supported file is sent to gif2webp if and only if it *)
(* is a .gif whose probe reports more than one page or fails; a .gif whose *)
(* probe reports at most one page, and every other supported file, is sent *)
(* to sharp; exactly one of the two encoders is invoked per attempted file.*)
C7_DispatchEveryAttempt ==
  \A a \in attempts :
    /\ "gif2webp" \in a.encoders <=> (IsGifAttempt(a) /\ ProbeSaysAnimated(a))
    /\ (~IsGifAttempt(a) \/ (a.probe.ran /\ ~ProbeSaysAnimated(a)))
         => "sharp" \in a.encoders
    /\ Cardinality(a.encoders) = 1

(* C7 (amended): the same, for every file whose input stat and output      *)
(* directory creation succeeded; a file that fails before that invokes no  *)
(* encoder and no probe.                                                   *)
C7_DispatchWhenReached ==
  \A a \in attempts :
    IF ReachedDispatch(a)
    THEN /\ "gif2webp" \in a.encoders <=> (IsGifAttempt(a) /\ ProbeSaysAnimated(a))
         /\ "sharp" \in a.encoders <=> ~(IsGifAttempt(a) /\ ProbeSaysAnimated(a))
         /\ Cardinality(a.encoders) = 1
         /\ a.probe.ran <=> IsGifAttempt(a)
    ELSE a.encoders = {} /\ ~a.probe.ran

\* a .gif whose probe failed went to gif2webp, next to a file that failed
\* before dispatch
C7_Witness ==
  /\ \E a \in attempts :
       IsGifAttempt(a) /\ a.probe.threw /\ a.encoders = {"gif2webp"}
  /\ \E a \in attempts : ~ReachedDispatch(a)
  /\ \E a \in attempts : ~IsGifAttempt(a) /\ a.encoders = {"sharp"}

----------------------------------------------------------------------------
(* C8: the statistics at the root do not depend on the order in which the  *)
(* entries of each directory are visited: they are the function of the     *)
(* tree and of the per-file outcomes given below.                          *)
ExpectedRootStats ==
  [ totalFiles |-> Cardinality(attempts),
    successfulConversions |-> Cardinality(Succeeded(attempts)),
    failedConversions |-> Cardinality(Failed(attempts)),
    totalOriginalSize |-> SumSize(SucceededFilesIn(Root)),
    totalNewSize |-> SumNewSize(Succeeded(attempts)),
    formats |-> [e \in {ExtOfName(PathBasename(a.input)) : a \in attempts} |->
                   Cardinality({a \in attempts : ExtOfName(PathBasename(a.input)) = e})] ]

C8_OrderIndependent ==
  pc = "done" => finalStats = ExpectedRootStats

\* the root held a file and a subdirectory with a file of the same format,
\* so a file was visited before or after the subdirectory
C8_Witness ==
  /\ pc = "done"
  /\ \E a, b \in attempts :
       /\ PathDirname(a.input) = Root
       /\ PathDirname(b.input) # Root
       /\ ExtOfName(PathBasename(a.input)) = ExtOfName(PathBasename(b.input))
  /\ finalStats.successfulConversions >= 1

----------------------------------------------------------------------------
(* C9: when listing a directory fails, processDirectory returns a record   *)
(* with all counters zero and an empty format map; the parent goes on with *)
(* its other entries, whose statistics are unaffected, and the run reaches *)
(* the summary.                                                            *)
C9_ListingFailureIsolated ==
  /\ \A r \in returned : r.dir \in listFailed => r.stats = EmptyStats
  /\ \A r \in returned :
       {a.input : a \in AttemptsIn(r.dir)} = {SrcPath(f) : f \in SupportedIn(r.dir)}
  /\ \A r \in returned : r.stats.totalFiles = Cardinality(SupportedIn(r.dir))
  /\ listFailed # {} => pc \in {"walk", "summary", "done"}
  /\ pc = "walk" => stack # <<>>

\* the listing of a subdirectory failed, a sibling entry was converted and
\* the summary was printed
C9_Witness ==
  /\ pc = "done"
  /\ \E d \in listFailed : d # Root /\ \E r \in returned : r.dir = d
  /\ finalStats.totalFiles >= 1

----------------------------------------------------------------------------
(* C10: at every level totalOriginalSize is the sum of the original sizes  *)
(* and totalNewSize the sum of the new sizes of exactly the files of that  *)
(* subtree whose conversion succeeded.                                     *)
C10_SizesSumOverSuccesses ==
  \A r \in returned :
    /\ r.stats.totalOriginalSize = SumSize(SucceededFilesIn(r.dir))
    /\ r.stats.totalNewSize = SumNewSize(Succeeded(AttemptsIn(r.dir)))

\* the root has returned with a success of its own, a success in a
\* subdirectory and a failure
C10_Witness ==
  \E r \in returned :
    /\ r.dir = Root
    /\ \E a \in Succeeded(attempts) : PathDirname(a.input) = Root
    /\ \E a \in Succeeded(attempts) : PathDirname(a.input) # Root
    /\ Failed(attempts) # {}
    /\ r.stats.totalOriginalSize > r.stats.totalNewSize

====
